---- MODULE Spec2Model ----
(***************************************************************************)
(* A model of sgkit/utils.py: check_array_like, encode_array and           *)
(* split_array_chunks.  The three functions are pure; each is an operator   *)
(* computed the way the source computes it, and the state machine is one    *)
(* caller that invokes one of them on inputs drawn from bounded sets,       *)
(* observes the outcome (a returned value or a raised exception) and        *)
(* returns to idle.                                                         *)
(*                                                                          *)
(* numpy arrays and Python tuples are sequences.  Array positions and       *)
(* codes are 0-based, as in the source: At(arr, i) reads arr[i].            *)
(* An exception is a record: its type, the f-string's template and the      *)
(* interpolated values in order; `trace` lists the statements of the        *)
(* function that were executed before it returned or raised.                *)
(***************************************************************************)
EXTENDS Integers, Sequences, FiniteSets

VARIABLES pc, fn, args, ret

vars == <<pc, fn, args, ret>>

\* ---------------------------------------------------------------- bounds

\* split_array_chunks is called with n and blocks in -MaxNeg..MaxInt.
MaxInt == 7
MaxNeg == 2
\* encode_array is called with sequences of at most MaxLen values of 1..MaxValue.
MaxLen == 4
MaxValue == 3
\* check_array_like is called on values of 0..MaxNdim dimensions, with sets of
\* at most MaxSetSize acceptable dtypes, kinds or dimensionalities.
MaxNdim == 2
MaxSetSize == 2

Ints == (0 - MaxNeg)..MaxInt
Values == 1..MaxValue

\* The sequences of exactly m values.
RECURSIVE SeqsOfLen(_)
SeqsOfLen(m) ==
    IF m = 0 THEN {<<>>}
    ELSE {Append(s, v) : s \in SeqsOfLen(m - 1), v \in Values}
Inputs == UNION {SeqsOfLen(m) : m \in 0..MaxLen}

\* ------------------------------------------------------- outcomes of a call

Returned(value, trace) ==
    [exc |-> "none", fmt |-> "", shown |-> <<>>, value |-> value, trace |-> trace]

Raised(exc, fmt, shown, trace) ==
    [exc |-> exc, fmt |-> fmt, shown |-> shown, value |-> <<>>, trace |-> trace]

\* ------------------------------------------------------ split_array_chunks

\* Python's  k * (v,) : a tuple of k copies of v, empty when k <= 0.
RECURSIVE TupleRepeat(_, _)
TupleRepeat(k, v) ==
    IF k <= 0 THEN <<>> ELSE <<v>> \o TupleRepeat(k - 1, v)

\* np.divmod(n, blocks): floored quotient and remainder.
np_divmod(n, blocks) == <<n \div blocks, n % blocks>>

\* Mutant of split_chunks: the two runs concatenated the other way round.
ChunksSmallFirst(n_div, n_mod, blocks) ==
    TupleRepeat(blocks - n_mod, n_div) \o TupleRepeat(n_mod, n_div + 1)
\* chunks = n_mod * (n_div + 1,) + (blocks - n_mod) * (n_div,)
split_chunks(n_div, n_mod, blocks) ==
    TupleRepeat(n_mod, n_div + 1) \o TupleRepeat(blocks - n_mod, n_div)

\* Mutant of split_preconditions: the blocks > n check left out.
PrecondNoBlocksGtN(n, blocks) ==
    IF n <= 0 THEN [raise |-> "n <= 0", trace |-> <<"n <= 0">>]
    ELSE IF blocks <= 0
    THEN [raise |-> "blocks <= 0", trace |-> <<"n <= 0", "blocks <= 0">>]
    ELSE [raise |-> "none", trace |-> <<"n <= 0", "blocks <= 0">>]
\* Mutant of split_preconditions: n <= 0 tested before blocks > n.
PrecondElementsFirst(n, blocks) ==
    IF n <= 0 THEN [raise |-> "n <= 0", trace |-> <<"n <= 0">>]
    ELSE IF blocks > n
    THEN [raise |-> "blocks > n", trace |-> <<"n <= 0", "blocks > n">>]
    ELSE IF blocks <= 0
    THEN [raise |-> "blocks <= 0",
          trace |-> <<"n <= 0", "blocks > n", "blocks <= 0">>]
    ELSE [raise |-> "none",
          trace |-> <<"n <= 0", "blocks > n", "blocks <= 0">>]
\* The three precondition checks, in source order.  The result names the
\* check that raised ("none" when all pass) and the checks evaluated.
split_preconditions(n, blocks) ==
    IF blocks > n THEN [raise |-> "blocks > n", trace |-> <<"blocks > n">>]
    ELSE IF n <= 0
    THEN [raise |-> "n <= 0", trace |-> <<"blocks > n", "n <= 0">>]
    ELSE IF blocks <= 0
    THEN [raise |-> "blocks <= 0",
          trace |-> <<"blocks > n", "n <= 0", "blocks <= 0">>]
    ELSE [raise |-> "none",
          trace |-> <<"blocks > n", "n <= 0", "blocks <= 0">>]

FmtBlocksGtN ==
    "Number of blocks ({blocks}) cannot be greater than number of elements ({n})"
FmtElements == "Number of elements ({n}) must be >= 0"
FmtBlocks == "Number of blocks ({blocks}) must be >= 0"

\* split_array_chunks: the preconditions, then divmod and the chunk tuple.
split_array_chunks(n, blocks) ==
    LET pre == split_preconditions(n, blocks) IN
    CASE pre.raise = "blocks > n" ->
           Raised("ValueError", FmtBlocksGtN, <<blocks, n>>, pre.trace)
      [] pre.raise = "n <= 0" ->
           Raised("ValueError", FmtElements, <<n>>, pre.trace)
      [] pre.raise = "blocks <= 0" ->
           Raised("ValueError", FmtBlocks, <<blocks>>, pre.trace)
      [] OTHER ->
           LET dm == np_divmod(n, blocks)
               n_div == dm[1]
               n_mod == dm[2]
           IN Returned(split_chunks(n_div, n_mod, blocks),
                       pre.trace \o <<"divmod", "chunks">>)

\* ---------------------------------------------------------- check_array_like

\* A value is the record of its attributes: hasattr(a, k) is k \in DOMAIN a.
\* A dtype is named by its canonical name (str(a.dtype)).
hasattr(a, k) == k \in DOMAIN a

DTypes == {"int64", "int32", "float64"}
DTypeSpecs == {"int64", "i8", "i4", "float64", "f8"}
Kinds == {"i", "f", "U"}
Ndims == 0..MaxNdim

\* The shape of a d-dimensional array: d extents.
ShapeOf(d) == TupleRepeat(d, 2)

\* np.ndarray-like values, and values lacking one or more of the attributes.
Objects ==
    {[ndim |-> d, dtype |-> t, shape |-> ShapeOf(d)] : d \in Ndims, t \in DTypes}
    \cup {[ndim |-> d, dtype |-> t] : d \in Ndims, t \in DTypes}
    \cup {[ndim |-> d, shape |-> ShapeOf(d)] : d \in Ndims}
    \cup {[dtype |-> t, shape |-> ShapeOf(d)] : d \in Ndims, t \in DTypes}
    \cup {[ndim |-> d] : d \in Ndims}
    \cup {[dtype |-> t] : t \in DTypes}
    \cup {[shape |-> ShapeOf(d)] : d \in Ndims}
    \cup {[type |-> "list"]}

\* A constraint parameter: None, a single value, or a set of values.
None == [tag |-> "None"]
Single(v) == [tag |-> "single", value |-> v]
AnyOf(S) == [tag |-> "set", members |-> S]

SmallSubsets(S) == {X \in SUBSET S : Cardinality(X) <= MaxSetSize}
ParamsOver(S) ==
    {None} \cup {Single(v) : v \in S} \cup {AnyOf(X) : X \in SmallSubsets(S)}

\* Mutant of np_dtype: the specifier compared as given, not normalized.
DTypeUnnormalized(t) == t
\* np.dtype(t): the dtype a specifier denotes.
np_dtype(t) ==
    CASE t = "i8" -> "int64"
      [] t = "i4" -> "int32"
      [] t = "f8" -> "float64"
      [] OTHER -> t

\* dtype.kind
dtype_kind(d) ==
    CASE d = "int64" -> "i"
      [] d = "int32" -> "i"
      [] d = "float64" -> "f"

\* Mutant of array_attrs: the attributes probed in the reverse order.
AttrsShapeFirst == <<"shape", "dtype", "ndim">>
\* array_attrs = "ndim", "dtype", "shape"
array_attrs == <<"ndim", "dtype", "shape">>

\* for k in array_attrs: if not hasattr(a, k): raise ...
\* The first attribute, from the i-th on, that a lacks; "none" when it has all.
RECURSIVE first_missing(_, _)
first_missing(a, i) ==
    IF i > Len(array_attrs) THEN "none"
    ELSE IF ~hasattr(a, array_attrs[i]) THEN array_attrs[i]
    ELSE first_missing(a, i + 1)

FmtMissing == "Not an array. Missing attribute '{k}'"
FmtDtypeSet == "Array dtype ({a.dtype}) does not match one of {dtype}"
FmtDtype == "Array dtype ({a.dtype}) does not match {np.dtype(dtype)}"
FmtKindSet == "Array dtype kind ({a.dtype.kind}) does not match one of {kind}"
FmtKind == "Array dtype kind ({a.dtype.kind}) does not match {kind}"
FmtNdimSet == "Number of dimensions ({a.ndim}) does not match one of {ndim}"
FmtNdim == "Number of dimensions ({a.ndim}) does not match {ndim}"

\* The outcome of one constraint block: it passes or raises.
Pass == [exc |-> "none", fmt |-> "", shown |-> <<>>]
Fail(exc, fmt, shown) == [exc |-> exc, fmt |-> fmt, shown |-> shown]

\* if dtype is not None: ...
check_dtype(a, dtype) ==
    IF dtype.tag = "None" THEN Pass
    ELSE IF dtype.tag = "set"
    THEN LET normalized == {np_dtype(t) : t \in dtype.members}
         IN IF a.dtype \notin normalized
            THEN Fail("TypeError", FmtDtypeSet, <<a.dtype, normalized>>)
            ELSE Pass
    ELSE IF a.dtype # np_dtype(dtype.value)
    THEN Fail("TypeError", FmtDtype, <<a.dtype, np_dtype(dtype.value)>>)
    ELSE Pass

\* Mutant of check_kind: the messages show the expected kind only.
KindOmitsActual(a, kind) ==
    IF kind.tag = "None" THEN Pass
    ELSE IF kind.tag = "set"
    THEN IF dtype_kind(a.dtype) \notin kind.members
         THEN Fail("TypeError", FmtKindSet, <<kind.members>>)
         ELSE Pass
    ELSE IF dtype_kind(a.dtype) # kind.value
    THEN Fail("TypeError", FmtKind, <<kind.value>>)
    ELSE Pass
\* if kind is not None: ...
check_kind(a, kind) ==
    IF kind.tag = "None" THEN Pass
    ELSE IF kind.tag = "set"
    THEN IF dtype_kind(a.dtype) \notin kind.members
         THEN Fail("TypeError", FmtKindSet, <<dtype_kind(a.dtype), kind.members>>)
         ELSE Pass
    ELSE IF dtype_kind(a.dtype) # kind.value
    THEN Fail("TypeError", FmtKind, <<dtype_kind(a.dtype), kind.value>>)
    ELSE Pass

\* if ndim is not None: ...
check_ndim(a, ndim) ==
    IF ndim.tag = "None" THEN Pass
    ELSE IF ndim.tag = "set"
    THEN IF a.ndim \notin ndim.members
         THEN Fail("ValueError", FmtNdimSet, <<a.ndim, ndim.members>>)
         ELSE Pass
    ELSE IF ndim.value # a.ndim
    THEN Fail("ValueError", FmtNdim, <<a.ndim, ndim.value>>)
    ELSE Pass

\* The constraint blocks entered: those whose parameter is not None.
Entered(name, param) == IF param.tag = "None" THEN <<>> ELSE <<name>>

\* Mutant of check_array_like: the ndim block moved before the dtype block.
CheckNdimFirst(a, dtype, kind, ndim) ==
    LET k == first_missing(a, 1) IN
    IF k # "none"
    THEN Raised("TypeError", FmtMissing, <<k>>, <<"attrs">>)
    ELSE
    LET n == check_ndim(a, ndim)
        tn == <<"attrs">> \o Entered("ndim", ndim)
    IN
    IF n.exc # "none" THEN Raised(n.exc, n.fmt, n.shown, tn)
    ELSE
    LET d == check_dtype(a, dtype)
        td == tn \o Entered("dtype", dtype)
    IN
    IF d.exc # "none" THEN Raised(d.exc, d.fmt, d.shown, td)
    ELSE
    LET c == check_kind(a, kind)
        tk == td \o Entered("kind", kind)
    IN
    IF c.exc # "none" THEN Raised(c.exc, c.fmt, c.shown, tk)
    ELSE Returned(<<>>, tk)
\* check_array_like: the attribute loop, then the dtype, kind and ndim
\* blocks in this order; the first raise ends the call.
check_array_like(a, dtype, kind, ndim) ==
    LET k == first_missing(a, 1) IN
    IF k # "none"
    THEN Raised("TypeError", FmtMissing, <<k>>, <<"attrs">>)
    ELSE
    LET d == check_dtype(a, dtype)
        td == <<"attrs">> \o Entered("dtype", dtype)
    IN
    IF d.exc # "none" THEN Raised(d.exc, d.fmt, d.shown, td)
    ELSE
    LET c == check_kind(a, kind)
        tk == td \o Entered("kind", kind)
    IN
    IF c.exc # "none" THEN Raised(c.exc, c.fmt, c.shown, tk)
    ELSE
    LET n == check_ndim(a, ndim)
        tn == tk \o Entered("ndim", ndim)
    IN
    IF n.exc # "none" THEN Raised(n.exc, n.fmt, n.shown, tn)
    ELSE Returned(<<>>, tn)

\* ------------------------------------------------------------ encode_array

\* arr[i] of a numpy array, i counted from 0.
At(arr, i) == arr[i + 1]

\* The number of elements a stable ascending sort puts before arr[i].
SortPos(arr, i) ==
    Cardinality({j \in DOMAIN arr :
                   arr[j] < arr[i] \/ (arr[j] = arr[i] /\ j < i)})

\* np.argsort(arr), stable: the 0-based positions of arr in ascending order
\* of value, equal values in order of position.
np_argsort(arr) ==
    [k \in 1..Len(arr) |->
        (CHOOSE i \in DOMAIN arr : SortPos(arr, i) = k - 1) - 1]

\* arr[mask]: the elements of arr at the positions where mask is true.
BoolIndex(arr, mask) ==
    LET pos == SelectSeq([k \in 1..Len(arr) |-> k], LAMBDA k : mask[k])
    IN [j \in 1..Len(pos) |-> arr[pos[j]]]

\* Mutant of np_unique: index is the position of the last element of each
\* run (what an unstable sort may leave), not of the first.
UniqueLastIndex(x) ==
    LET perm == np_argsort(x)
        aux == [k \in 1..Len(x) |-> At(x, perm[k])]
        mask == [k \in 1..Len(x) |-> k = 1 \/ aux[k] # aux[k - 1]]
        last == [k \in 1..Len(x) |-> k = Len(x) \/ aux[k] # aux[k + 1]]
        imask == [k \in 1..Len(x) |->
                    Cardinality({j \in 1..k : mask[j]}) - 1]
    IN [names |-> BoolIndex(aux, mask),
        index |-> BoolIndex(perm, last),
        inverse |-> [i \in 1..Len(x) |->
                       imask[CHOOSE k \in 1..Len(x) : perm[k] = i - 1]]]
\* np.unique(x, return_index=True, return_inverse=True): sort x stably, mark
\* the start of every run of equal values, and read off the sorted distinct
\* values, the position in x of the first element of each run, and for
\* every element of x the number of its run.
np_unique(x) ==
    LET perm == np_argsort(x)
        aux == [k \in 1..Len(x) |-> At(x, perm[k])]
        mask == [k \in 1..Len(x) |-> k = 1 \/ aux[k] # aux[k - 1]]
        imask == [k \in 1..Len(x) |->
                    Cardinality({j \in 1..k : mask[j]}) - 1]
    IN [names |-> BoolIndex(aux, mask),
        index |-> BoolIndex(perm, mask),
        inverse |-> [i \in 1..Len(x) |->
                       imask[CHOOSE k \in 1..Len(x) : perm[k] = i - 1]]]

\* Mutant of order_of_appearance: the argsort left out (sorted order kept).
SortedOrder(index) == [k \in 1..Len(index) |-> k - 1]
\* index = np.argsort(index)
order_of_appearance(index) == np_argsort(index)

\* Mutant of rank_of: the permutation used as is, not inverted.
RankIsIndex(index) == index
\* rank = np.empty_like(index); rank[index] = np.arange(len(index)).
\* index is a permutation, so every position of rank is assigned.
rank_of(index) ==
    [p \in 1..Len(index) |->
        (CHOOSE j \in 1..Len(index) : index[j] = p - 1) - 1]

\* return rank[inverse], names[index]
encode_array(x) ==
    LET u == np_unique(x)
        index == order_of_appearance(u.index)
        rank == rank_of(index)
    IN Returned(<<[i \in 1..Len(x) |-> At(rank, u.inverse[i])],
                  [j \in 1..Len(index) |-> At(u.names, index[j])]>>,
                <<"unique", "argsort", "rank", "return">>)

\* ------------------------------------------------------------ state machine

NoArgs == [none |-> TRUE]
NoRet == Returned(<<>>, <<>>)

Init ==
    /\ pc = "idle"
    /\ fn = "none"
    /\ args = NoArgs
    /\ ret = NoRet

CallSplitArrayChunks ==
    /\ pc = "idle"
    /\ \E n \in Ints, blocks \in Ints :
         /\ fn' = "split_array_chunks"
         /\ args' = [n |-> n, blocks |-> blocks]
         /\ ret' = split_array_chunks(n, blocks)
    /\ pc' = "done"

CallEncodeArray ==
    /\ pc = "idle"
    /\ \E x \in Inputs :
         /\ fn' = "encode_array"
         /\ args' = [x |-> x]
         /\ ret' = encode_array(x)
    /\ pc' = "done"

CallCheckArrayLike ==
    /\ pc = "idle"
    /\ \E a \in Objects, dtype \in ParamsOver(DTypeSpecs),
          kind \in ParamsOver(Kinds), ndim \in ParamsOver(Ndims) :
         /\ fn' = "check_array_like"
         /\ args' = [a |-> a, dtype |-> dtype, kind |-> kind, ndim |-> ndim]
         /\ ret' = check_array_like(a, dtype, kind, ndim)
    /\ pc' = "done"

\* The caller has seen the outcome; the call leaves nothing behind.
Finish ==
    /\ pc = "done"
    /\ pc' = "idle"
    /\ fn' = "none"
    /\ args' = NoArgs
    /\ ret' = NoRet

Next ==
    \/ CallSplitArrayChunks
    \/ CallEncodeArray
    \/ CallCheckArrayLike
    \/ Finish

Spec == Init /\ [][Next]_vars

\* ------------------------------------------------- claims: split_array_chunks

IsSplit == pc = "done" /\ fn = "split_array_chunks"

RECURSIVE SumSeq(_)
SumSeq(s) == IF s = <<>> THEN 0 ELSE Head(s) + SumSeq(Tail(s))

\* C1: for 1 <= blocks <= n the call returns, the result has exactly `blocks`
\* entries that sum to n, every entry is q or q + 1 (so positive), and the
\* first r entries are q + 1 and the remaining blocks - r entries are q,
\* where q = n div blocks and r = n mod blocks.
C1_BalancedChunks ==
    (IsSplit /\ 1 <= args.blocks /\ args.blocks <= args.n) =>
        LET q == args.n \div args.blocks
            r == args.n % args.blocks
            chunks == ret.value
        IN /\ ret.exc = "none"
           /\ Len(chunks) = args.blocks
           /\ SumSeq(chunks) = args.n
           /\ \A i \in 1..Len(chunks) : chunks[i] \in {q, q + 1} /\ chunks[i] > 0
           /\ \A i, j \in 1..Len(chunks) :
                (chunks[i] = q + 1 /\ chunks[j] = q) => i < j
           /\ Cardinality({i \in 1..Len(chunks) : chunks[i] = q + 1}) = r
           /\ \A i \in 1..Len(chunks) :
                chunks[i] = IF i <= r THEN q + 1 ELSE q

\* split_array_chunks(7, 3) returned (3, 2, 2): a remainder of 1.
C1_Witness ==
    /\ IsSplit
    /\ args = [n |-> 7, blocks |-> 3]
    /\ ret.exc = "none"
    /\ ret.value = <<3, 2, 2>>

\* C2: whenever blocks > n, or n <= 0, or blocks <= 0, the call raises
\* ValueError, returns no chunk sizes, and neither the divmod nor the chunk
\* construction has been executed.
C2_InvalidInputsRaise ==
    (IsSplit /\ (args.blocks > args.n \/ args.n <= 0 \/ args.blocks <= 0)) =>
        /\ ret.exc = "ValueError"
        /\ ret.value = <<>>
        /\ \A i \in 1..Len(ret.trace) : ret.trace[i] \notin {"divmod", "chunks"}

\* split_array_chunks(3, 5) raised ValueError.
C2_Witness ==
    /\ IsSplit
    /\ args = [n |-> 3, blocks |-> 5]
    /\ ret.exc = "ValueError"
    /\ ret.value = <<>>

\* C10: the error reported is that of the first violated precondition in
\* the order blocks > n, n <= 0, blocks <= 0: the 'more blocks than
\* elements' error exactly when blocks > n, the 'number of elements' error
\* exactly when blocks <= n <= 0 (so blocks <= 0 holds too), and the
\* 'number of blocks' error exactly when n > 0 and blocks <= 0.
C10_FirstViolatedPrecondition ==
    IsSplit =>
        /\ (ret.exc = "ValueError" /\ ret.fmt = FmtBlocksGtN)
              <=> args.blocks > args.n
        /\ (ret.exc = "ValueError" /\ ret.fmt = FmtElements)
              <=> (args.blocks <= args.n /\ args.n <= 0)
        /\ (ret.exc = "ValueError" /\ ret.fmt = FmtElements)
              => args.blocks <= 0
        /\ (ret.exc = "ValueError" /\ ret.fmt = FmtBlocks)
              <=> (args.n > 0 /\ args.blocks <= 0)
        /\ ret.exc = "none"
              <=> (1 <= args.blocks /\ args.blocks <= args.n)

\* split_array_chunks(0, 1) reported 'more blocks than elements', although
\* n <= 0 is violated as well.
C10_Witness ==
    /\ IsSplit
    /\ args = [n |-> 0, blocks |-> 1]
    /\ ret.exc = "ValueError"
    /\ ret.fmt = FmtBlocksGtN
    /\ ret.shown = <<1, 0>>

\* ------------------------------------------------------- claims: encode_array

IsEncode == pc = "done" /\ fn = "encode_array"

codes == ret.value[1]
uniques == ret.value[2]

\* The position (from 0) of the first occurrence of v in x.
FirstOccurrence(x, v) ==
    (CHOOSE i \in 1..Len(x) :
        x[i] = v /\ \A j \in 1..(i - 1) : x[j] # v) - 1

Distinct(x) == {x[i] : i \in 1..Len(x)}

\* C3: codes has the length of the input, every code is a valid index into
\* uniques, uniques[codes[i]] = values[i] for every i, and both results are
\* empty for the empty input.
C3_DecodeRoundTrip ==
    IsEncode =>
        /\ ret.exc = "none"
        /\ Len(codes) = Len(args.x)
        /\ \A i \in 1..Len(args.x) :
             /\ codes[i] \in 0..(Len(uniques) - 1)
             /\ At(uniques, codes[i]) = args.x[i]
        /\ args.x = <<>> => (codes = <<>> /\ uniques = <<>>)

\* encode_array([2, 1, 2]) returned codes [0, 1, 0] and uniques [2, 1].
C3_Witness ==
    /\ IsEncode
    /\ args.x = <<2, 1, 2>>
    /\ codes = <<0, 1, 0>>
    /\ uniques = <<2, 1>>

\* C4: uniques holds each distinct input value exactly once and nothing
\* else, in ascending order of first occurrence; the code of a value is the
\* number of distinct values that first occur before it; the codes used are
\* exactly 0..K-1, K the number of distinct values.
C4_FirstOccurrenceOrder ==
    IsEncode =>
        LET x == args.x
            K == Cardinality(Distinct(x))
        IN /\ Len(uniques) = K
           /\ {uniques[j] : j \in 1..Len(uniques)} = Distinct(x)
           /\ \A j, k \in 1..Len(uniques) :
                j < k => FirstOccurrence(x, uniques[j])
                           < FirstOccurrence(x, uniques[k])
           /\ \A i \in 1..Len(x) :
                codes[i] = Cardinality({v \in Distinct(x) :
                               FirstOccurrence(x, v) < FirstOccurrence(x, x[i])})
           /\ {codes[i] : i \in 1..Len(codes)} = 0..(K - 1)

\* encode_array([3, 1, 1, 2]) (the docstring's ['c', 'a', 'a', 'b'])
\* returned codes [0, 1, 1, 2] and uniques [3, 1, 2], not the sorted [1, 2, 3].
C4_Witness ==
    /\ IsEncode
    /\ args.x = <<3, 1, 1, 2>>
    /\ codes = <<0, 1, 1, 2>>
    /\ uniques = <<3, 1, 2>>

\* The single left-to-right pass of the spec's design note: `seen` lists the
\* values met so far in order, so the code of a value is its position in it.
CodeIn(seen, v) == (CHOOSE j \in 1..Len(seen) : seen[j] = v) - 1

RECURSIVE LinearPass(_, _, _)
LinearPass(x, seen, out) ==
    IF x = <<>> THEN <<out, seen>>
    ELSE IF \E j \in 1..Len(seen) : seen[j] = Head(x)
         THEN LinearPass(Tail(x), seen, Append(out, CodeIn(seen, Head(x))))
         ELSE LinearPass(Tail(x), Append(seen, Head(x)), Append(out, Len(seen)))

\* C8: the unique / argsort / rank mechanism returns exactly the (codes,
\* uniques) of the single left-to-right pass.
C8_SameAsLinearPass ==
    IsEncode => ret.value = LinearPass(args.x, <<>>, <<>>)

\* encode_array([2, 3, 2, 1]): the sorted names [1, 2, 3] are reordered.
C8_Witness ==
    /\ IsEncode
    /\ args.x = <<2, 3, 2, 1>>
    /\ ret.value = <<<<0, 1, 0, 2>>, <<2, 3, 1>>>>
    /\ ret.value = LinearPass(args.x, <<>>, <<>>)

\* --------------------------------------------------- claims: check_array_like

IsCheck == pc = "done" /\ fn = "check_array_like"

HasAllAttrs(a) == {"ndim", "dtype", "shape"} \subseteq DOMAIN a

\* The dtype each specifier names (numpy's table of dtype names).
Denotes ==
    [int64 |-> "int64", i8 |-> "int64", i4 |-> "int32",
     float64 |-> "float64", f8 |-> "float64"]

\* C5: a value lacking at least one of ndim, dtype, shape makes the call
\* raise TypeError naming the first missing attribute in the order ndim,
\* dtype, shape, whatever constraints were passed, and no constraint block
\* is entered.
C5_MissingAttribute ==
    (IsCheck /\ ~HasAllAttrs(args.a)) =>
        /\ ret.exc = "TypeError"
        /\ ret.fmt = FmtMissing
        /\ ret.shown = << IF "ndim" \notin DOMAIN args.a THEN "ndim"
                          ELSE IF "dtype" \notin DOMAIN args.a THEN "dtype"
                          ELSE "shape" >>
        /\ ret.trace = <<"attrs">>

\* A value with ndim but neither dtype nor shape, checked against
\* constraints it could not meet: the error names dtype.
C5_Witness ==
    /\ IsCheck
    /\ args.a = [ndim |-> 1]
    /\ args.dtype = Single("f8")
    /\ args.ndim = AnyOf({0, 2})
    /\ ret.exc = "TypeError"
    /\ ret.shown = <<"dtype">>

\* C6: with all three attributes present and exactly one of dtype, kind,
\* ndim given as a set (the other two None), the call succeeds iff the
\* value's attribute is a member of the set (of the normalized set for
\* dtype), and otherwise raises an error showing the full set.
C6_SetMembership ==
    (IsCheck /\ HasAllAttrs(args.a)) =>
        /\ (args.dtype.tag = "set" /\ args.kind = None /\ args.ndim = None) =>
             LET normalized == {Denotes[t] : t \in args.dtype.members} IN
             /\ ret.exc = "none" <=> args.a.dtype \in normalized
             /\ ret.exc # "none" =>
                  /\ ret.exc = "TypeError"
                  /\ ret.fmt = FmtDtypeSet
                  /\ ret.shown = <<args.a.dtype, normalized>>
        /\ (args.kind.tag = "set" /\ args.dtype = None /\ args.ndim = None) =>
             /\ ret.exc = "none" <=> dtype_kind(args.a.dtype) \in args.kind.members
             /\ ret.exc # "none" =>
                  /\ ret.exc = "TypeError"
                  /\ ret.fmt = FmtKindSet
                  /\ ret.shown = <<dtype_kind(args.a.dtype), args.kind.members>>
        /\ (args.ndim.tag = "set" /\ args.dtype = None /\ args.kind = None) =>
             /\ ret.exc = "none" <=> args.a.ndim \in args.ndim.members
             /\ ret.exc # "none" =>
                  /\ ret.exc = "ValueError"
                  /\ ret.fmt = FmtNdimSet
                  /\ ret.shown = <<args.a.ndim, args.ndim.members>>

\* An int64 array passes dtype={'i8', 'f8'}: membership is in the
\* normalized set {int64, float64}.
C6_Witness ==
    /\ IsCheck
    /\ args.a = [ndim |-> 1, dtype |-> "int64", shape |-> <<2>>]
    /\ args.dtype = AnyOf({"i8", "f8"})
    /\ args.kind = None
    /\ args.ndim = None
    /\ ret.exc = "none"

DtypeFails(a, dtype) ==
    /\ dtype # None
    /\ IF dtype.tag = "set"
       THEN a.dtype \notin {Denotes[t] : t \in dtype.members}
       ELSE a.dtype # Denotes[dtype.value]

KindFails(a, kind) ==
    /\ kind # None
    /\ IF kind.tag = "set"
       THEN dtype_kind(a.dtype) \notin kind.members
       ELSE dtype_kind(a.dtype) # kind.value

NdimFails(a, ndim) ==
    /\ ndim # None
    /\ IF ndim.tag = "set"
       THEN a.ndim \notin ndim.members
       ELSE a.ndim # ndim.value

\* C7: the outcome is that of the first failing check in the order
\* attributes, dtype, kind, ndim: TypeError for a missing attribute, a dtype
\* or a kind mismatch, ValueError for a dimensionality mismatch (only when
\* no earlier check fails), and a silent return exactly when no specified
\* check fails.
C7_FirstFailingCheck ==
    IsCheck =>
        IF ~HasAllAttrs(args.a)
        THEN ret.exc = "TypeError" /\ ret.fmt = FmtMissing
        ELSE IF DtypeFails(args.a, args.dtype)
        THEN ret.exc = "TypeError" /\ ret.fmt \in {FmtDtype, FmtDtypeSet}
        ELSE IF KindFails(args.a, args.kind)
        THEN ret.exc = "TypeError" /\ ret.fmt \in {FmtKind, FmtKindSet}
        ELSE IF NdimFails(args.a, args.ndim)
        THEN ret.exc = "ValueError" /\ ret.fmt \in {FmtNdim, FmtNdimSet}
        ELSE ret.exc = "none" /\ ret.value = <<>>

\* A 2-d float64 array checked with kind='i' and ndim=1 fails both: only
\* the TypeError of the kind check is raised.
C7_Witness ==
    /\ IsCheck
    /\ args.a = [ndim |-> 2, dtype |-> "float64", shape |-> <<2, 2>>]
    /\ args.dtype = None
    /\ args.kind = Single("i")
    /\ args.ndim = Single(1)
    /\ ret.exc = "TypeError"
    /\ ret.fmt = FmtKind
    /\ ret.trace = <<"attrs", "kind">>

\* The message of a dtype or kind mismatch shows the value's actual dtype
\* or kind, then the expected value or set.
ShowsActualAndExpected ==
    /\ Len(ret.shown) = 2
    /\ \/ /\ ret.fmt = FmtDtype
          /\ ret.shown = <<args.a.dtype, Denotes[args.dtype.value]>>
       \/ /\ ret.fmt = FmtDtypeSet
          /\ ret.shown = <<args.a.dtype, {Denotes[t] : t \in args.dtype.members}>>
       \/ /\ ret.fmt = FmtKind
          /\ ret.shown = <<dtype_kind(args.a.dtype), args.kind.value>>
       \/ /\ ret.fmt = FmtKindSet
          /\ ret.shown = <<dtype_kind(args.a.dtype), args.kind.members>>

\* C9 as stated: every TypeError of check_array_like, the missing-attribute
\* one included, carries the offending actual value and the expected value
\* or set.
C9_AsStated ==
    (IsCheck /\ ret.exc = "TypeError") => ShowsActualAndExpected

\* C9, amended: every dtype or kind mismatch carries the actual dtype or
\* kind and the expected value or (normalized) set; the missing-attribute
\* error carries the name of the missing attribute and no actual value.
C9_MismatchShowsActualAndExpected ==
    (IsCheck /\ ret.exc = "TypeError") =>
        IF HasAllAttrs(args.a)
        THEN ShowsActualAndExpected
        ELSE /\ ret.fmt = FmtMissing
             /\ Len(ret.shown) = 1
             /\ ret.shown[1] \in {"ndim", "dtype", "shape"}
             /\ ret.shown[1] \notin DOMAIN args.a

\* An int32 array checked with kind={'f', 'U'}: the message shows the
\* actual kind 'i' and the whole set.
C9_Witness ==
    /\ IsCheck
    /\ args.a = [ndim |-> 0, dtype |-> "int32", shape |-> <<>>]
    /\ args.dtype = None
    /\ args.kind = AnyOf({"f", "U"})
    /\ ret.exc = "TypeError"
    /\ ret.shown = <<"i", {"f", "U"}>>

====
